---- MODULE Spec2Model ----
(***************************************************************************)
(* Model of the expense tracker of src/src/main.rs: the in-memory          *)
(* ExpenseTracker (expenses, budgets), the storage file expenses.json and  *)
(* the menu loop of main with one action per menu entry.                   *)
(*                                                                         *)
(* Representation choices:                                                 *)
(*  - a String is the sequence of its Unicode scalar values;               *)
(*  - an f64 is [nan, val]: a finite value (an integer, exactly            *)
(*    representable) or NaN;                                               *)
(*  - a DateTime<Utc> is [year, month, sub], sub being the position of     *)
(*    the instant inside its month;                                        *)
(*  - the text of expenses.json is a sequence of JSON tokens.              *)
(***************************************************************************)
EXTENDS Integers, Sequences, FiniteSets, TLC

VARIABLES
    pc,         \* where the process is: "start", "menu", "exited", "panicked", "killed"
    expenses,   \* tracker.expenses
    budgets,    \* tracker.budgets
    file,       \* the file expenses.json
    saved,      \* history: what the last write to expenses.json was given
    out         \* what the last operation reported on the console

vars == <<pc, expenses, budgets, file, saved, out>>

\* Longest collection explored.
MaxLen == 2

(***************************************************************************)
(* f64                                                                     *)
(***************************************************************************)
F64(v) == [nan |-> FALSE, val |-> v]
NaN == [nan |-> TRUE, val |-> 0]

F64Add(a, b) == IF a.nan \/ b.nan THEN NaN ELSE F64(a.val + b.val)

F64Gt(a, b) == ~a.nan /\ ~b.nan /\ a.val > b.val

partial_cmp(a, b) ==
    IF a.nan \/ b.nan THEN "None"
    ELSE IF a.val < b.val THEN "Less"
    ELSE IF a.val = b.val THEN "Equal"
    ELSE "Greater"

(***************************************************************************)
(* String                                                                  *)
(***************************************************************************)
Food    == <<70, 111, 111, 100>>
FOOD    == <<70, 79, 79, 68>>
food    == <<102, 111, 111, 100>>
Gadgets == <<71, 97, 100, 103, 101, 116, 115>>
Ete     == <<201, 116, 233>>       \* "Été"
ete     == <<233, 116, 233>>       \* "été"

to_ascii_lowercase(c) == IF c \in 65..90 THEN c + 32 ELSE c

eq_ignore_ascii_case(a, b) ==
    /\ Len(a) = Len(b)
    /\ \A i \in 1..Len(a) : to_ascii_lowercase(a[i]) = to_ascii_lowercase(b[i])

RECURSIVE StrCmp(_, _)
StrCmp(a, b) ==
    IF a = <<>> /\ b = <<>> THEN "Equal"
    ELSE IF a = <<>> THEN "Less"
    ELSE IF b = <<>> THEN "Greater"
    ELSE IF Head(a) < Head(b) THEN "Less"
    ELSE IF Head(a) > Head(b) THEN "Greater"
    ELSE StrCmp(Tail(a), Tail(b))

(***************************************************************************)
(* DateTime<Utc>                                                           *)
(***************************************************************************)
DateTime(y, m, s) == [year |-> y, month |-> m, sub |-> s]

NoTime == DateTime(0, 1, 0)

TimeCmp(a, b) ==
    IF a.year # b.year THEN (IF a.year < b.year THEN "Less" ELSE "Greater")
    ELSE IF a.month # b.month THEN (IF a.month < b.month THEN "Less" ELSE "Greater")
    ELSE IF a.sub # b.sub THEN (IF a.sub < b.sub THEN "Less" ELSE "Greater")
    ELSE "Equal"

\* The instants the clock (Utc::now) is read at.
Instants == { DateTime(2024, 5, 0), DateTime(2025, 4, 0), DateTime(2025, 5, 0) }

(***************************************************************************)
(* Expense                                                                 *)
(***************************************************************************)
Expense(a, c, t) == [amount |-> a, category |-> c, timestamp |-> t]

\* What the user types at the prompts of add_expense.
AddInputs == { [category |-> Food, amount |-> F64(2)],
               [category |-> Food, amount |-> NaN],
               [category |-> FOOD, amount |-> F64(1)],
               [category |-> Ete,  amount |-> F64(-1)] }

\* What the user types at the prompts of set_budget.
BudgetInputs == { [category |-> Food, budget |-> F64(2)],
                  [category |-> Food, budget |-> F64(0)] }

\* What the user types at the prompt of filter_expenses (trimmed).
FilterInputs == { food, Gadgets, ete }

\* What the user types at the prompt of sort_expenses (trimmed).
SortInputs == { "1", "2", "3", "4", "5", "x" }

\* What the user types at the prompt of delete_expenses: text that parses
\* as a usize (num >= 0), or text that does not (num = -1).
DeleteInputs == (-1) .. (MaxLen + 1)

(***************************************************************************)
(* serde_json: the text of expenses.json as a sequence of tokens           *)
(***************************************************************************)
Tok(t)     == [t |-> t,     name |-> "", n |-> 0, s |-> <<>>]
KeyTok(k)  == [t |-> "key", name |-> k,  n |-> 0, s |-> <<>>]
NumTok(v)  == [t |-> "num", name |-> "", n |-> v, s |-> <<>>]
StrTok(cs) == [t |-> "str", name |-> "", n |-> 0, s |-> cs]

\* serde_json writes a finite f64 as the shortest decimal text that
\* denotes it, and NaN or an infinity as null. The finite amounts of the
\* model have few digits: their text denotes them exactly and ParseF64
\* reads it back exactly.
FormatF64(a) == IF a.nan THEN Tok("null") ELSE NumTok(a.val)

\* The timestamp written without its sub-second digits.
FormatTimestamp_NoFraction(ts) == <<ts.year, ts.month, 0>>

\* chrono writes a DateTime<Utc> as RFC 3339 text with all its digits.
FormatTimestamp(ts) == <<ts.year, ts.month, ts.sub>>

SerializeExpense(e) ==
    << Tok("{"),
       KeyTok("amount"), FormatF64(e.amount), Tok(","),
       KeyTok("category"), StrTok(e.category), Tok(","),
       KeyTok("timestamp"), StrTok(FormatTimestamp(e.timestamp)),
       Tok("}") >>

RECURSIVE SerializeElements(_)
SerializeElements(es) ==
    IF es = <<>> THEN <<>>
    ELSE IF Len(es) = 1 THEN SerializeExpense(es[1])
    ELSE SerializeExpense(es[1]) \o <<Tok(",")>> \o SerializeElements(Tail(es))

to_string_pretty(es) == <<Tok("[")>> \o SerializeElements(es) \o <<Tok("]")>>

\* Reading back: every parser returns [ok, value, rest].
Failed == [ok |-> FALSE, value |-> <<>>, rest |-> <<>>]
Parsed(v, rest) == [ok |-> TRUE, value |-> v, rest |-> rest]

\* An f64 field takes a number; null is "invalid type: null, expected f64".
ParseF64(tok) == IF tok.t = "num" THEN Parsed(F64(tok.n), <<>>) ELSE Failed

ParseTimestamp(tok) ==
    IF tok.t = "str" /\ Len(tok.s) = 3 /\ tok.s[2] \in 1..12
    THEN Parsed(DateTime(tok.s[1], tok.s[2], tok.s[3]), <<>>)
    ELSE Failed

\* One Expense object at the head of text (fields in the order written).
ParseExpense(text) ==
    IF Len(text) < 10 THEN Failed
    ELSE LET a == ParseF64(text[3])
             t == ParseTimestamp(text[9])
         IN  IF /\ text[1] = Tok("{")
                /\ text[2] = KeyTok("amount")
                /\ a.ok
                /\ text[4] = Tok(",")
                /\ text[5] = KeyTok("category")
                /\ text[6].t = "str"
                /\ text[7] = Tok(",")
                /\ text[8] = KeyTok("timestamp")
                /\ t.ok
                /\ text[10] = Tok("}")
             THEN Parsed(Expense(a.value, text[6].s, t.value),
                         SubSeq(text, 11, Len(text)))
             ELSE Failed

\* A reader that takes the end of the text for the end of the array.
RECURSIVE ParseElements_Lenient(_, _)
ParseElements_Lenient(text, acc) ==
    LET e == ParseExpense(text)
    IN  IF ~e.ok THEN Failed
        ELSE IF e.rest = <<>> \/ Head(e.rest) = Tok("]")
             THEN Parsed(Append(acc, e.value), <<>>)
        ELSE IF Head(e.rest) = Tok(",")
             THEN ParseElements_Lenient(Tail(e.rest), Append(acc, e.value))
        ELSE Failed

\* The elements after the opening bracket, up to and including the closing one.
RECURSIVE ParseElements(_, _)
ParseElements(text, acc) ==
    LET e == ParseExpense(text)
    IN  IF ~e.ok \/ e.rest = <<>> THEN Failed
        ELSE IF Head(e.rest) = Tok("]")
             THEN Parsed(Append(acc, e.value), Tail(e.rest))
        ELSE IF Head(e.rest) = Tok(",")
             THEN ParseElements(Tail(e.rest), Append(acc, e.value))
        ELSE Failed

\* serde_json::from_str::<Vec<Expense>>: the whole text must be one array.
from_str(text) ==
    IF text = <<>> \/ Head(text) # Tok("[") THEN Failed
    ELSE IF Len(text) >= 2 /\ text[2] = Tok("]")
         THEN (IF Len(text) = 2 THEN Parsed(<<>>, <<>>) ELSE Failed)
    ELSE LET r == ParseElements(Tail(text), <<>>)
         IN  IF r.ok /\ r.rest = <<>> THEN r ELSE Failed

(***************************************************************************)
(* expenses.json                                                           *)
(***************************************************************************)
Absent     == [kind |-> "absent",     text |-> <<>>]
Unreadable == [kind |-> "unreadable", text |-> <<>>]
Written(text) == [kind |-> "text", text |-> text]

\* "{not valid json"
NotValidJson == << Tok("{"), Tok("not"), Tok("valid"), Tok("json") >>

NoSave == [status |-> "none", coll |-> <<>>]

\* The result of load_expenses: the collection and the message printed.
load_expenses(f) ==
    IF f.kind = "text"
    THEN LET r == from_str(f.text)
         IN  IF r.ok THEN [value |-> r.value, msg |-> "loaded"]
             ELSE [value |-> <<>>, msg |-> "parse_error"]
    ELSE IF f.kind = "absent" THEN [value |-> <<>>, msg |-> "not_found"]
    ELSE [value |-> <<>>, msg |-> "read_error"]

\* save_expenses writing all the expenses but the last.
save_expenses_AllButLast(es) ==
    Written(to_string_pretty(SubSeq(es, 1, Len(es) - 1)))

\* The file save_expenses leaves when it completes.
save_expenses(es) == Written(to_string_pretty(es))

(***************************************************************************)
(* The console: what an operation reported                                 *)
(***************************************************************************)
NoBudgets == [c \in {} |-> F64(0)]

Report(op, msg) ==
    [op |-> op, msg |-> msg, cat |-> <<>>, amt |-> F64(0), num |-> 0, key |-> "",
     time |-> NoTime, list |-> <<>>, totals |-> NoBudgets, total |-> F64(0)]

(***************************************************************************)
(* The computations of the handlers                                        *)
(***************************************************************************)
\* add_expense: the sum of the amounts of the expenses of a category,
\* f64 addition from 0.0 in collection order.
RECURSIVE SumCategory(_, _)
SumCategory(es, category) ==
    IF es = <<>> THEN F64(0)
    ELSE LET e == es[Len(es)]
             rest == SumCategory(SubSeq(es, 1, Len(es) - 1), category)
         IN  IF e.category = category THEN F64Add(rest, e.amount) ELSE rest

\* The comparison made inclusive: total_spent >= budget.
OverBudget_Inclusive(total_spent, budget) ==
    F64Gt(total_spent, budget) \/ total_spent = budget

\* add_expense: total_spent > budget.
OverBudget(total_spent, budget) == F64Gt(total_spent, budget)

\* add_expense: whether the warning is printed after the push.
BudgetExceeded(es, bs, category) ==
    /\ category \in DOMAIN bs
    /\ OverBudget(SumCategory(es, category), bs[category])

\* set_budget: budgets.insert(category, budget).
Insert(bs, category, budget) ==
    [c \in DOMAIN bs \cup {category} |-> IF c = category THEN budget ELSE bs[c]]

\* Option 4 comparing a with b, like option 5: oldest first.
Compare_NewestAsOldest(key, a, b) ==
    CASE key = "1" -> partial_cmp(a.amount, b.amount)
      [] key = "2" -> partial_cmp(b.amount, a.amount)
      [] key = "3" -> StrCmp(a.category, b.category)
      [] key = "4" -> TimeCmp(a.timestamp, b.timestamp)
      [] key = "5" -> TimeCmp(a.timestamp, b.timestamp)

\* sort_expenses: the comparator of each sorting option.
Compare(key, a, b) ==
    CASE key = "1" -> partial_cmp(a.amount, b.amount)
      [] key = "2" -> partial_cmp(b.amount, a.amount)
      [] key = "3" -> StrCmp(a.category, b.category)
      [] key = "4" -> TimeCmp(b.timestamp, a.timestamp)
      [] key = "5" -> TimeCmp(a.timestamp, b.timestamp)

\* Vec::sort_by is a stable sort: x goes before the first element greater
\* than it.
RECURSIVE InsertSorted(_, _, _)
InsertSorted(x, s, key) ==
    IF s = <<>> THEN <<x>>
    ELSE IF Compare(key, x, Head(s)) = "Less" THEN <<x>> \o s
    ELSE <<Head(s)>> \o InsertSorted(x, Tail(s), key)

RECURSIVE sort_by(_, _)
sort_by(s, key) ==
    IF s = <<>> THEN <<>>
    ELSE InsertSorted(s[Len(s)], sort_by(SubSeq(s, 1, Len(s) - 1), key), key)

\* partial_cmp(..).unwrap() panics on None: sort_by compares every element
\* of a slice of two or more, so a NaN amount is met.
SortPanics(s, key) ==
    /\ key \in {"1", "2"}
    /\ Len(s) >= 2
    /\ \E i \in 1..Len(s) : s[i].amount.nan

\* filter_expenses: the expenses kept by the filter closure.
CategoryMatches(category, input) == eq_ignore_ascii_case(category, input)

RECURSIVE Filtered(_, _)
Filtered(es, input) ==
    IF es = <<>> THEN <<>>
    ELSE IF CategoryMatches(Head(es).category, input)
         THEN <<Head(es)>> \o Filtered(Tail(es), input)
         ELSE Filtered(Tail(es), input)

\* The test without the year.
InCurrentMonth_AnyYear(ts, now) == ts.month = now.month

\* monthly_summary: the test of the loop body.
InCurrentMonth(ts, now) == ts.month = now.month /\ ts.year = now.year

\* monthly_summary: category_totals and total_spent after the loop.
RECURSIVE Summary(_, _)
Summary(es, now) ==
    IF es = <<>> THEN [totals |-> NoBudgets, total |-> F64(0)]
    ELSE LET e == es[Len(es)]
             acc == Summary(SubSeq(es, 1, Len(es) - 1), now)
             old == IF e.category \in DOMAIN acc.totals
                    THEN acc.totals[e.category] ELSE F64(0)
         IN  IF InCurrentMonth(e.timestamp, now)
             THEN [totals |-> Insert(acc.totals, e.category, F64Add(old, e.amount)),
                   total  |-> F64Add(acc.total, e.amount)]
             ELSE acc

\* delete_expenses: the bounds test on the parsed index.
IndexAccepted(index, len) == index < len

\* Vec::remove(i), i counted from 0.
Remove(s, i) == SubSeq(s, 1, i) \o SubSeq(s, i + 2, Len(s))

(***************************************************************************)
(* The process                                                             *)
(***************************************************************************)
\* main, after ExpenseTracker::new(), with expenses.json as f.
Started(f) ==
    /\ pc = "start"
    /\ expenses = <<>>
    /\ budgets = NoBudgets
    /\ file = f
    /\ saved = NoSave
    /\ out = Report("start", "")

\* The first run: there is no expenses.json yet.
Init == Started(Absent)

\* main: tracker.expenses = load_expenses().
Load ==
    /\ pc = "start"
    /\ LET r == load_expenses(file)
       IN  /\ expenses' = r.value
           /\ out' = Report("load", r.msg)
    /\ pc' = "menu"
    /\ UNCHANGED <<budgets, file, saved>>

\* Menu entry 0.
add_expense(category, amount, now) ==
    /\ pc = "menu"
    /\ Len(expenses) < MaxLen
    /\ expenses' = Append(expenses, Expense(amount, category, now))
    /\ out' = [Report("add", IF BudgetExceeded(expenses', budgets, category)
                             THEN "budget_exceeded" ELSE "added")
                  EXCEPT !.cat = category, !.amt = amount, !.time = now]
    /\ UNCHANGED <<pc, budgets, file, saved>>

\* Menu entry 1.
view_expenses ==
    /\ pc = "menu"
    /\ out' = [Report("view", IF expenses = <<>> THEN "no_expenses" ELSE "list")
                  EXCEPT !.list = expenses]
    /\ UNCHANGED <<pc, expenses, budgets, file, saved>>

\* Menu entry 2.
sort_expenses(key) ==
    /\ pc = "menu"
    /\ IF key \notin {"1", "2", "3", "4", "5"}
       THEN /\ out' = [Report("sort", "invalid_choice") EXCEPT !.key = key]
            /\ UNCHANGED <<pc, expenses>>
       ELSE IF SortPanics(expenses, key)
       THEN /\ pc' = "panicked"
            /\ out' = [Report("sort", "panic") EXCEPT !.key = key]
            /\ UNCHANGED expenses
       ELSE /\ expenses' = sort_by(expenses, key)
            /\ out' = [Report("sort", "sorted") EXCEPT !.key = key, !.list = expenses']
            /\ UNCHANGED pc
    /\ UNCHANGED <<budgets, file, saved>>

\* Menu entry 3.
filter_expenses(input) ==
    /\ pc = "menu"
    /\ LET filtered == Filtered(expenses, input)
       IN  out' = [Report("filter", IF filtered = <<>> THEN "none_found" ELSE "found")
                      EXCEPT !.cat = input, !.list = filtered]
    /\ UNCHANGED <<pc, expenses, budgets, file, saved>>

\* Menu entry 4.
monthly_summary(now) ==
    /\ pc = "menu"
    /\ LET r == Summary(expenses, now)
       IN  out' = IF DOMAIN r.totals = {}
                  THEN [Report("monthly", "no_expenses_this_month") EXCEPT !.time = now]
                  ELSE [Report("monthly", "summary")
                           EXCEPT !.time = now, !.totals = r.totals, !.total = r.total]
    /\ UNCHANGED <<pc, expenses, budgets, file, saved>>

\* Menu entry 5.
set_budget(category, budget) ==
    /\ pc = "menu"
    /\ budgets' = Insert(budgets, category, budget)
    /\ out' = [Report("set_budget", "set") EXCEPT !.cat = category, !.amt = budget]
    /\ UNCHANGED <<pc, expenses, file, saved>>

\* Menu entry 6. num is the text typed: a usize, or (num < 0) no usize.
\* With index = 0 the subtraction index - 1 overflows (a panic when overflow
\* is checked; otherwise usize::MAX, on which Vec::remove panics).
delete_expenses(num) ==
    /\ pc = "menu"
    /\ IF expenses = <<>>
       THEN /\ out' = Report("delete", "no_expenses")
            /\ UNCHANGED <<pc, expenses>>
       ELSE IF num < 0
       THEN /\ out' = [Report("delete", "invalid_input") EXCEPT !.num = num]
            /\ UNCHANGED <<pc, expenses>>
       ELSE IF ~IndexAccepted(num, Len(expenses))
       THEN /\ out' = [Report("delete", "invalid_index") EXCEPT !.num = num]
            /\ UNCHANGED <<pc, expenses>>
       ELSE IF num = 0
       THEN /\ pc' = "panicked"
            /\ out' = [Report("delete", "panic") EXCEPT !.num = num]
            /\ UNCHANGED expenses
       ELSE /\ expenses' = Remove(expenses, num - 1)
            /\ out' = [Report("delete", "deleted") EXCEPT !.num = num]
            /\ UNCHANGED pc
    /\ UNCHANGED <<budgets, file, saved>>

\* Menu entry 7; created says whether File::create("expense_csv") succeeded.
export_to_csv(created) ==
    /\ pc = "menu"
    /\ out' = IF created
              THEN [Report("export", "exported") EXCEPT !.list = expenses]
              ELSE Report("export", "failed")
    /\ UNCHANGED <<pc, expenses, budgets, file, saved>>

\* Menu entry 8: save_expenses, then break.
Exit ==
    /\ pc = "menu"
    /\ file' = save_expenses(expenses)
    /\ saved' = [status |-> "complete", coll |-> expenses]
    /\ pc' = "exited"
    /\ out' = Report("exit", "saved")
    /\ UNCHANGED <<expenses, budgets>>

Next ==
    \/ Load
    \/ \E i \in AddInputs, now \in Instants : add_expense(i.category, i.amount, now)
    \/ view_expenses
    \/ \E key \in SortInputs : sort_expenses(key)
    \/ \E input \in FilterInputs : filter_expenses(input)
    \/ \E now \in Instants : monthly_summary(now)
    \/ \E b \in BudgetInputs : set_budget(b.category, b.budget)
    \/ \E num \in DeleteInputs : delete_expenses(num)
    \/ \E created \in BOOLEAN : export_to_csv(created)
    \/ Exit

Spec == Init /\ [][Next]_vars

(***************************************************************************)
(* Several runs of the process over the same expenses.json                 *)
(***************************************************************************)
\* What is typed at add_expense, and when, in the runs of SpecRuns.
RunInputs == { Expense(F64(2), Food, DateTime(2024, 5, 0)),
               Expense(F64(-1), FOOD, DateTime(2025, 5, 1)),
               Expense(NaN, Ete, DateTime(2025, 5, 1)) }

\* Where a save may be cut short: after File::create, in the middle of
\* write_all, and before the last token.
CutPoints(text) == { 0, Len(text) \div 2, Len(text) - 1 }

\* Menu entry 8 with the process killed inside save_expenses.
SaveKilled(cut) ==
    /\ pc = "menu"
    /\ file' = Written(SubSeq(to_string_pretty(expenses), 1, cut))
    /\ saved' = [status |-> "partial", coll |-> expenses]
    /\ pc' = "killed"
    /\ out' = Report("exit", "killed")
    /\ UNCHANGED <<expenses, budgets>>

\* The program is started again.
Restart ==
    /\ pc \in {"exited", "killed", "panicked"}
    /\ pc' = "start"
    /\ expenses' = <<>>
    /\ budgets' = NoBudgets
    /\ out' = Report("start", "")
    /\ UNCHANGED <<file, saved>>

NextRuns ==
    \/ Load
    \/ \E e \in RunInputs : add_expense(e.category, e.amount, e.timestamp)
    \/ Exit
    \/ \E cut \in CutPoints(to_string_pretty(expenses)) : SaveKilled(cut)
    \/ Restart

\* The files the first of the runs may find.
InitFiles == { Absent, Unreadable, Written(NotValidJson) }

InitRuns == \E f \in InitFiles : Started(f)

SpecRuns == InitRuns /\ [][NextRuns]_vars

(***************************************************************************)
(* Notions the properties are stated with                                  *)
(***************************************************************************)
AllFinite(es) == \A i \in 1..Len(es) : ~es[i].amount.nan

\* The sum of the finite amounts of the expenses of es at the positions S.
RECURSIVE SumVals(_, _)
SumVals(es, S) ==
    IF S = {} THEN 0
    ELSE LET i == CHOOSE x \in S : TRUE
         IN  es[i].amount.val + SumVals(es, S \ {i})

\* The f64 sum of the amounts at the positions S: NaN as soon as one is.
SumAt(es, S) ==
    IF \E i \in S : es[i].amount.nan THEN NaN ELSE F64(SumVals(es, S))

Positions(es, e) == {i \in 1..Len(es) : es[i] = e}

IsPermutation(a, b) ==
    /\ Len(a) = Len(b)
    /\ \A i \in 1..Len(a) :
          Cardinality(Positions(a, a[i])) = Cardinality(Positions(b, a[i]))

Reverse(s) == [i \in 1..Len(s) |-> s[Len(s) + 1 - i]]

\* a comes no later than b in the lexicographic order of strings.
LexLeq(a, b) ==
    \/ /\ Len(a) <= Len(b)
       /\ \A i \in 1..Len(a) : a[i] = b[i]
    \/ \E k \in 1..Len(a) :
          /\ k <= Len(b)
          /\ \A i \in 1..(k - 1) : a[i] = b[i]
          /\ a[k] < b[k]

\* a is no later than b.
NotAfter(a, b) ==
    \/ a.year < b.year
    \/ a.year = b.year /\ a.month < b.month
    \/ a.year = b.year /\ a.month = b.month /\ a.sub <= b.sub

\* s is in the order the sorting option key asks for.
OrderedBy(key, s) ==
    \A i, j \in 1..Len(s) :
        i < j =>
            CASE key = "1" -> s[i].amount.val <= s[j].amount.val
              [] key = "2" -> s[i].amount.val >= s[j].amount.val
              [] key = "3" -> LexLeq(s[i].category, s[j].category)
              [] key = "4" -> NotAfter(s[j].timestamp, s[i].timestamp)
              [] key = "5" -> NotAfter(s[i].timestamp, s[j].timestamp)

\* s is in ascending order of amount and no two amounts are equal.
StrictlyAscending(s) ==
    /\ AllFinite(s)
    /\ \A i, j \in 1..Len(s) : i < j => s[i].amount.val < s[j].amount.val

\* The lower-case form of a letter: A-Z, and the capital letters of Latin-1.
LowerCase(c) ==
    IF c \in 65..90 \/ (c \in 192..222 /\ c # 215) THEN c + 32 ELSE c

SameIgnoringCase(a, b) ==
    /\ Len(a) = Len(b)
    /\ \A i \in 1..Len(a) : LowerCase(a[i]) = LowerCase(b[i])

SameIgnoringAsciiCase(a, b) ==
    /\ Len(a) = Len(b)
    /\ \A i \in 1..Len(a) :
          \/ a[i] = b[i]
          \/ a[i] \in 65..90 /\ b[i] = a[i] + 32
          \/ b[i] \in 65..90 /\ a[i] = b[i] + 32

\* s is the subsequence of es at the positions S, in the order of es.
IsSubsequenceAt(s, es, S) ==
    /\ Len(s) = Cardinality(S)
    /\ \A i \in 1..Len(s) :
          \E p \in S : /\ s[i] = es[p]
                       /\ Cardinality({q \in S : q < p}) = i - 1

(***************************************************************************)
(* Properties                                                              *)
(***************************************************************************)
\* C1: delete_expenses rejects every index outside 1..length, 0 and
\* length+1 included: it reports the index as invalid, the collection is
\* left as it was and the session continues.
C1_DeleteRejectsOutOfRange ==
    [][(/\ out'.op = "delete"
        /\ delete_expenses(out'.num)
        /\ expenses # <<>>
        /\ out'.num >= 0
        /\ out'.num \notin 1..Len(expenses))
       => /\ out'.msg = "invalid_index"
          /\ expenses' = expenses
          /\ pc' = "menu"]_vars

\* C2: for every k in 1..length, delete_expenses(k) removes exactly the
\* k-th expense: the length drops by one and the others keep their order;
\* k = length removes the last one.
C2_DeleteRemovesKth ==
    [][(/\ out'.op = "delete"
        /\ delete_expenses(out'.num)
        /\ out'.num \in 1..Len(expenses))
       => /\ Len(expenses') = Len(expenses) - 1
          /\ \A i \in 1..Len(expenses') :
                expenses'[i] = expenses[IF i < out'.num THEN i ELSE i + 1]]_vars

\* C7: the main loop ends only by Save & Exit: whatever is typed, a step
\* taken at the menu leaves the process at the menu or exits it.
C7_OnlyExitEndsLoop ==
    [][pc = "menu" => pc' \in {"menu", "exited"}]_vars

\* C3, as claimed: after every completed add the storage file holds the
\* whole in-memory collection, the new expense included, so that a load
\* at that point gives the collection back.
C3_AddPersists ==
    [][(/\ out'.op = "add"
        /\ add_expense(out'.cat, out'.amt, out'.time))
       => load_expenses(file').value = expenses']_vars

\* C3, amended: add appends the expense in memory and leaves the storage
\* file as it was; the file is written by Save & Exit alone, and once Save
\* & Exit has completed a load gives back the whole in-memory collection,
\* every added expense included, when all its amounts are finite.
C3_PersistsOnExit ==
    [][/\ (/\ out'.op = "add"
           /\ add_expense(out'.cat, out'.amt, out'.time))
          => /\ file' = file
             /\ expenses' = Append(expenses, Expense(out'.amt, out'.cat, out'.time))
       /\ file' # file => Exit
       /\ (pc' = "exited" /\ Exit /\ AllFinite(expenses))
             => load_expenses(file').value = expenses]_vars

C3_Witness ==
    /\ pc = "exited"
    /\ out.op = "exit"
    /\ Len(expenses) = MaxLen
    /\ AllFinite(expenses)
    /\ load_expenses(file).value = expenses

\* C4: an add to category c prints the budget warning exactly when a limit
\* is set for exactly c and the sum of the amounts of the expenses of
\* category c, the new one included, is strictly greater than the limit
\* set last; the expense is appended in every case.
C4_BudgetNotice ==
    [][/\ (/\ out'.op = "add"
           /\ add_expense(out'.cat, out'.amt, out'.time))
          => LET c == out'.cat
                 S == {p \in 1..Len(expenses') : expenses'[p].category = c}
                 total == SumAt(expenses', S)
             IN  /\ expenses' = Append(expenses, Expense(out'.amt, c, out'.time))
                 /\ pc' = "menu"
                 /\ out'.msg = "budget_exceeded"
                       <=> /\ c \in DOMAIN budgets
                           /\ ~total.nan
                           /\ total.val > budgets[c].val
       /\ (/\ out'.op = "set_budget"
           /\ set_budget(out'.cat, out'.amt))
          => /\ DOMAIN budgets' = DOMAIN budgets \cup {out'.cat}
             /\ budgets'[out'.cat] = out'.amt
             /\ \A c \in DOMAIN budgets \ {out'.cat} : budgets'[c] = budgets[c]]_vars

C4_Witness ==
    /\ out.op = "add"
    /\ out.msg = "budget_exceeded"
    /\ out.cat \in DOMAIN budgets
    /\ Len(expenses) = 2
    /\ expenses[1].category = out.cat

\* C5: load never fails: it gives the empty collection when expenses.json
\* does not exist, cannot be read, or does not parse as an array of
\* Expense records (text that is no JSON, a file cut short by a kill in
\* the middle of save, an amount written as null), and the session starts.
C5_LoadNeverFails ==
    [][(pc = "start" /\ Load)
       => /\ pc' = "menu"
          /\ ( \/ file.kind # "text"
               \/ saved.status \in {"none", "partial"}
               \/ ~AllFinite(saved.coll) )
             => expenses' = <<>>]_vars

C5_Witness ==
    /\ pc = "menu"
    /\ out.op = "load"
    /\ out.msg = "parse_error"
    /\ saved.status = "partial"
    /\ Len(saved.coll) >= 1
    /\ AllFinite(saved.coll)
    /\ Len(file.text) > 10
    /\ expenses = <<>>

C8_SortOrdersPermutation ==
    [][(/\ out'.op = "sort"
        /\ out'.msg = "sorted"
        /\ sort_expenses(out'.key))
       => /\ IsPermutation(expenses, expenses')
          /\ OrderedBy(out'.key, expenses')
          /\ budgets' = budgets
          /\ pc' = "menu"
          /\ (out'.key = "2" /\ StrictlyAscending(expenses))
                => expenses' = Reverse(expenses)]_vars

C8_Witness ==
    /\ pc = "menu"
    /\ out.op = "sort"
    /\ out.key = "4"
    /\ out.msg = "sorted"
    /\ Len(expenses) = MaxLen
    /\ expenses[1].timestamp # expenses[2].timestamp
    /\ expenses[1].amount.val < expenses[2].amount.val

\* C9: filter gives exactly the expenses whose category equals
\* the text typed ignoring letter case, in collection order, none when
\* none matches, and changes neither the collection nor the budgets.
C9_FilterIgnoresCase ==
    [][(/\ out'.op = "filter"
        /\ filter_expenses(out'.cat))
       => LET S == {p \in 1..Len(expenses) :
                       SameIgnoringCase(expenses[p].category, out'.cat)}
          IN  /\ IsSubsequenceAt(out'.list, expenses, S)
              /\ out'.msg = "none_found" <=> S = {}
              /\ expenses' = expenses
              /\ budgets' = budgets]_vars

\* What filter_expenses does give: exactly the expenses whose category
\* equals the text typed ignoring the case of the ASCII letters A-Z (any
\* other character must be the same), in collection order, none when
\* none matches; the collection and the budgets are left alone.
FilterIgnoresAsciiCase ==
    [][(/\ out'.op = "filter"
        /\ filter_expenses(out'.cat))
       => LET S == {p \in 1..Len(expenses) :
                       SameIgnoringAsciiCase(expenses[p].category, out'.cat)}
          IN  /\ IsSubsequenceAt(out'.list, expenses, S)
              /\ out'.msg = "none_found" <=> S = {}
              /\ expenses' = expenses
              /\ budgets' = budgets]_vars

FilterFound ==
    /\ out.op = "filter"
    /\ out.cat = food
    /\ out.msg = "found"
    /\ Len(expenses) = 2
    /\ out.list = expenses
    /\ expenses[1].category = FOOD
    /\ expenses[2].category = Food

\* C10: the monthly summary takes exactly the expenses whose timestamp has
\* the month and the year of the reference time: it gives the sum of
\* their amounts for each of their categories and the sum of them all,
\* and reports no expenses this month exactly when there are none of them.
C10_MonthlySummary ==
    [][(/\ out'.op = "monthly"
        /\ monthly_summary(out'.time))
       => LET now == out'.time
              S == {p \in 1..Len(expenses) :
                       /\ expenses[p].timestamp.month = now.month
                       /\ expenses[p].timestamp.year = now.year}
              Cats == {expenses[p].category : p \in S}
          IN  /\ out'.msg = "no_expenses_this_month" <=> S = {}
              /\ S # {} =>
                    /\ out'.msg = "summary"
                    /\ out'.total = SumAt(expenses, S)
                    /\ DOMAIN out'.totals = Cats
                    /\ \A c \in Cats :
                          out'.totals[c] =
                             SumAt(expenses, {p \in S : expenses[p].category = c})
              /\ expenses' = expenses]_vars

C10_Witness ==
    /\ out.op = "monthly"
    /\ out.msg = "summary"
    /\ Len(expenses) = 2
    /\ expenses[1].timestamp.month = out.time.month
    /\ expenses[1].timestamp.year # out.time.year
    /\ expenses[2].timestamp.month = out.time.month
    /\ expenses[2].timestamp.year = out.time.year
    /\ out.total = expenses[2].amount

====
